---- MODULE Spec2Model ----
(***************************************************************************)
(* A model of the pairing engine of src/record_pairs.rs (RecordPairs,      *)
(* PairPosition, key, mate_key, Singletons) and of the Feature value type  *)
(* of src/feature.rs.                                                      *)
(*                                                                         *)
(* The record source is an iterator over a finite sequence of decode       *)
(* results that is fixed at construction.  A record is identified by its   *)
(* index in that sequence: the buffer, the emitted pairs and the drained   *)
(* singletons all hold indices, so that two records with equal fields are  *)
(* still two records.                                                      *)
(***************************************************************************)
EXTENDS Integers, Sequences, FiniteSets, TLC

\* ------------------------------------------------------------------ bounds

\* The longest input the source yields.
MaxInput == 3

\* ------------------------------------------------------- alignment records

\* A flag is the set of the bits of bam::Flag that are set in it, among
\* READ_1, READ_2, SECONDARY and SUPPLEMENTARY.
is_read_1(flag) == "READ_1" \in flag
is_read_2(flag) == "READ_2" \in flag
is_secondary(flag) == "SECONDARY" \in flag
is_supplementary(flag) == "SUPPLEMENTARY" \in flag

\* The flag sets of the records the source yields.
SourceFlags ==
    { {"READ_1"}, {"READ_2"}, {}, {"READ_1", "READ_2"},
      {"READ_2", "SECONDARY"}, {"READ_1", "SUPPLEMENTARY"} }

Names == {"r1", "r2"}
RefIds == {0}
Positions == {10, 50}

\* The fields of bam::Record that key and mate_key read.  The source yields
\* records of mates aligned at two different positions, with the template
\* length the signed distance from the record to its mate.  The reads of the
\* source are named r1, but for one first mate named r2.
SourceRecords ==
    { r \in [read_name : Names, flag : SourceFlags, ref_id : RefIds,
             pos : Positions, next_ref_id : RefIds, next_pos : Positions,
             tlen : {p - q : p, q \in Positions}] :
        /\ r.pos # r.next_pos
        /\ r.tlen = r.next_pos - r.pos
        /\ r.read_name = "r2" => (r.flag = {"READ_1"} /\ r.pos = 10) }

\* An item of the source: io::Result<bam::Record>.
OkItem(r) == [kind |-> "Ok", record |-> r]
ErrItem == [kind |-> "Err"]
SourceItems == {OkItem(r) : r \in SourceRecords} \cup {ErrItem}

\* ------------------------------------------------------------ PairPosition

\* A mate designation that is Second for both designations.
MateAlwaysSecond(p) == "Second"

mate(p) == IF p = "First" THEN "Second" ELSE "First"

\* TryFrom<bam::Flag> for PairPosition; "Err" is Err(()).
try_from(flag) ==
    IF is_read_1(flag) THEN "First"
    ELSE IF is_read_2(flag) THEN "Second"
    ELSE "Err"

\* --------------------------------------------------------------- RecordKey

\* The least i32.
MinI32 == -2147483647 - 1

\* -x in i32 without overflow checks: the negation wraps.
WrappingNeg(x) == IF x = MinI32 THEN MinI32 ELSE -x

\* unwrap() of the designation panics on Err(()).
KeyPanics(record) == try_from(record.flag) = "Err"

\* mate_key panics on Err(()) and, in a build with overflow checks, on the
\* negation of the least i32.
MateKeyPanics(record, checks) ==
    KeyPanics(record) \/ (checks /\ record.tlen = MinI32)

key(record) ==
    << record.read_name, try_from(record.flag), record.ref_id, record.pos,
       record.next_ref_id, record.next_pos, record.tlen >>

\* A mate key that carries one read name for every record.
mate_key_unnamed(record) ==
    << "r1", mate(try_from(record.flag)), record.next_ref_id,
       record.next_pos, record.ref_id, record.pos, WrappingNeg(record.tlen) >>

mate_key(record) ==
    << record.read_name, mate(try_from(record.flag)), record.next_ref_id,
       record.next_pos, record.ref_id, record.pos, WrappingNeg(record.tlen) >>

\* The filter test without the supplementary bit.
is_secondary_only(record) == is_secondary(record.flag)

is_primary(record) ==
    is_secondary(record.flag) \/ is_supplementary(record.flag)

\* ------------------------------------------------------------------- state

VARIABLES
    records,       \* the source: the sequence of decode results
    next_index,    \* the source's position: index of the next item to yield
    buf,           \* the buffer: RecordKey -> index of the buffered record
    primary_only,  \* the filter flag
    overflow_checks,
                   \* the build panics on integer overflow, or wraps
    drain,         \* the live Singletons iterator, if any
    panicked,      \* a key computation has panicked
    result,        \* what the last call of next_pair returned
    last,          \* the operation that ran last
    pairs,         \* every pair emitted so far, in order
    errors,        \* every decode failure forwarded so far, in order
    singles,       \* every record yielded by a drain so far, in order
    overwritten,   \* records replaced in the buffer by a same-key insertion
    dropped,       \* records removed by dropping a drain that had not yielded them
    feature        \* the Feature value len is called on, if any

vars == << records, next_index, buf, primary_only, overflow_checks, drain,
           panicked, result, last, pairs, errors, singles, overwritten,
           dropped, feature >>

\* No Feature has been built.
NoFeature == [built |-> FALSE]

\* HashMap::new()
EmptyBuf == [k \in {} |-> 0]

\* An insertion that keeps the value of a key that is present.
HashMapInsertIfAbsent(b, k, v) ==
    [x \in DOMAIN b \cup {k} |-> IF x \in DOMAIN b THEN b[x] ELSE v]

\* HashMap::insert replaces the value of a key that is present.
HashMapInsert(b, k, v) ==
    [x \in DOMAIN b \cup {k} |-> IF x = k THEN v ELSE b[x]]

HashMapRemove(b, k) == [x \in DOMAIN b \ {k} |-> b[x]]

\* No Singletons iterator is alive.  A live one holds the entries of the
\* buffer at its creation (start), the keys it has not yielded, what it has
\* yielded, and whether it was created right after the drop of another.
NoDrain ==
    [active |-> FALSE, start |-> EmptyBuf, keys |-> {}, yielded |-> << >>,
     after_drop |-> FALSE]

RECURSIVE SeqsOfLen(_, _)
SeqsOfLen(S, n) ==
    IF n = 0 THEN {<< >>}
    ELSE {Append(s, x) : s \in SeqsOfLen(S, n - 1), x \in S}

Inputs == UNION {SeqsOfLen(SourceItems, n) : n \in 0..MaxInput}

\* RecordPairs::new.  The template lengths of SourceRecords are away from the
\* ends of i32, where a build with overflow checks and one without compute
\* the same keys: Init takes the build with the checks, InitKey takes both.
Init ==
    /\ records \in Inputs
    /\ primary_only \in BOOLEAN
    /\ overflow_checks = TRUE
    /\ next_index = 1
    /\ buf = EmptyBuf
    /\ drain = NoDrain
    /\ panicked = FALSE
    /\ result = [kind |-> "NotCalled"]
    /\ last = "new"
    /\ pairs = << >>
    /\ errors = << >>
    /\ singles = << >>
    /\ overwritten = {}
    /\ dropped = {}
    /\ feature = NoFeature

\* --------------------------------------------------------------- next_pair

\* The buffer is cleared when the source is exhausted.
ExhaustedClears(i, b, ow) ==
    [next_index |-> i, buf |-> EmptyBuf, ow |-> ow,
     result |-> [kind |-> "None",
                 warn |-> IF DOMAIN b # {}
                          THEN << Cardinality(DOMAIN b) >> ELSE << >>]]

\* The singleton count is logged whether the buffer is empty or not.
ExhaustedWarnsAlways(i, b, ow) ==
    [next_index |-> i, buf |-> b, ow |-> ow,
     result |-> [kind |-> "None", warn |-> << Cardinality(DOMAIN b) >>]]

\* The source is exhausted: the singleton count is logged when the buffer is
\* not empty, and the call returns None.
Exhausted(i, b, ow) ==
    [next_index |-> i, buf |-> b, ow |-> ow,
     result |-> [kind |-> "None",
                 warn |-> IF DOMAIN b # {}
                          THEN << Cardinality(DOMAIN b) >> ELSE << >>]]

\* A decode failure that discards the buffer.
DecodeFailureResets(i, b, ow) ==
    [next_index |-> i + 1, buf |-> EmptyBuf, ow |-> ow,
     result |-> [kind |-> "Err", item |-> i]]

\* A decode failure that ends the sequence as well.
DecodeFailureEnds(i, b, ow) ==
    [next_index |-> Len(records) + 1, buf |-> b, ow |-> ow,
     result |-> [kind |-> "Err", item |-> i]]

\* The source yields Err(e) as item i: the call returns Some(Err(e)).
DecodeFailure(i, b, ow) ==
    [next_index |-> i + 1, buf |-> b, ow |-> ow,
     result |-> [kind |-> "Err", item |-> i]]

\* The filter: primary_only && is_primary(&record).
Skips(record) == primary_only /\ is_primary(record)

\* A pair emitted in arrival order.
OrderPairByArrival(mk, m, i) == << m, i >>

\* The order of an emitted pair: the buffered mate first when the mate key
\* designates it First, the arriving record first otherwise.
OrderPair(mk, m, i) == IF mk[2] = "First" THEN << m, i >> ELSE << i, m >>

\* The mate is looked up and left in the buffer.
MateFoundKept(i, b, ow, mk) ==
    [next_index |-> i + 1, buf |-> b, ow |-> ow,
     result |-> [kind |-> "Pair", pair |-> OrderPair(mk, b[mk], i)]]

\* The pair is returned after one more item has been pulled from the source.
MateFoundReadsAhead(i, b, ow, mk) ==
    [next_index |-> i + 2, buf |-> HashMapRemove(b, mk), ow |-> ow,
     result |-> [kind |-> "Pair", pair |-> OrderPair(mk, b[mk], i)]]

\* The pair is returned and the buffer is emptied.
MateFoundClears(i, b, ow, mk) ==
    [next_index |-> i + 1, buf |-> EmptyBuf, ow |-> ow,
     result |-> [kind |-> "Pair", pair |-> OrderPair(mk, b[mk], i)]]

\* The buffer holds the mate of item i under mk: it is removed and the pair is
\* returned.
MateFound(i, b, ow, mk) ==
    [next_index |-> i + 1, buf |-> HashMapRemove(b, mk), ow |-> ow,
     result |-> [kind |-> "Pair", pair |-> OrderPair(mk, b[mk], i)]]

\* The loop of next_pair over the source rs, from source position i with
\* buffer b; ow collects the records a same-key insertion has replaced.
RECURSIVE next_pair(_, _, _, _)
next_pair(rs, i, b, ow) ==
    IF i > Len(rs) THEN Exhausted(i, b, ow)
    ELSE IF rs[i].kind = "Err" THEN DecodeFailure(i, b, ow)
    ELSE LET record == rs[i].record IN
         IF Skips(record) THEN next_pair(rs, i + 1, b, ow)
         ELSE IF MateKeyPanics(record, overflow_checks)
         THEN [next_index |-> i + 1, buf |-> b, ow |-> ow,
               result |-> [kind |-> "Panic", item |-> i]]
         ELSE IF mate_key(record) \in DOMAIN b
         THEN MateFound(i, b, ow, mate_key(record))
         ELSE next_pair(rs, i + 1, HashMapInsert(b, key(record), i),
                        IF key(record) \in DOMAIN b
                        THEN ow \cup {b[key(record)]} ELSE ow)

\* Iterator::next of RecordPairs: one call of next_pair.
NextPair ==
    /\ ~panicked
    /\ ~drain.active
    /\ LET r == next_pair(records, next_index, buf, {}) IN
         /\ next_index' = r.next_index
         /\ buf' = r.buf
         /\ result' = r.result
         /\ overwritten' = overwritten \cup r.ow
         /\ panicked' = (r.result.kind = "Panic")
         /\ pairs' = IF r.result.kind = "Pair"
                     THEN Append(pairs, r.result.pair) ELSE pairs
         /\ errors' = IF r.result.kind = "Err"
                      THEN Append(errors, r.result.item) ELSE errors
    /\ last' = "next_pair"
    /\ UNCHANGED << records, primary_only, overflow_checks, drain, singles,
                    dropped, feature >>

\* -------------------------------------------------------------- singletons

\* RecordPairs::singletons: self.buf.drain() borrows the buffer until the
\* iterator is dropped.
Singletons ==
    /\ ~panicked
    /\ ~drain.active
    /\ drain' = [active |-> TRUE, start |-> buf, keys |-> DOMAIN buf,
                 yielded |-> << >>, after_drop |-> (last = "singletons_drop")]
    /\ last' = "singletons"
    /\ UNCHANGED << records, next_index, buf, primary_only, overflow_checks,
                    panicked, result, pairs, errors, singles, overwritten,
                    dropped, feature >>

\* A drain that yields a copy of an entry and leaves the entry in the buffer.
SingletonsNextKeeps ==
    /\ drain.active
    /\ \E k \in drain.keys :
         /\ singles' = Append(singles, buf[k])
         /\ drain' = [drain EXCEPT !.keys = @ \ {k},
                                   !.yielded = Append(@, buf[k])]
    /\ last' = "singletons_next"
    /\ UNCHANGED << records, next_index, buf, primary_only, overflow_checks,
                    panicked, result, pairs, errors, overwritten, dropped,
                    feature >>

\* Singletons::next: the drain yields one of the entries it still holds, in
\* the order of the hash table (any).
SingletonsNext ==
    /\ drain.active
    /\ \E k \in drain.keys :
         /\ singles' = Append(singles, buf[k])
         /\ buf' = HashMapRemove(buf, k)
         /\ drain' = [drain EXCEPT !.keys = @ \ {k},
                                   !.yielded = Append(@, buf[k])]
    /\ last' = "singletons_next"
    /\ UNCHANGED << records, next_index, primary_only, overflow_checks,
                    panicked, result, pairs, errors, overwritten, dropped,
                    feature >>

\* A drop that leaves what the drain has not yielded in the buffer.
SingletonsDropKeeps ==
    /\ drain.active
    /\ drain' = NoDrain
    /\ last' = "singletons_drop"
    /\ UNCHANGED << records, next_index, buf, primary_only, overflow_checks,
                    panicked, result, pairs, errors, singles, overwritten,
                    dropped, feature >>

\* Dropping the Singletons iterator: the Drain removes the entries it has not
\* yielded and releases the buffer.
SingletonsDrop ==
    /\ drain.active
    /\ buf' = EmptyBuf
    /\ dropped' = dropped \cup {buf[k] : k \in drain.keys}
    /\ drain' = NoDrain
    /\ last' = "singletons_drop"
    /\ UNCHANGED << records, next_index, primary_only, overflow_checks,
                    panicked, result, pairs, errors, singles, overwritten,
                    feature >>

Next ==
    \/ NextPair
    \/ Singletons
    \/ SingletonsNext
    \/ SingletonsDrop

Spec == Init /\ [][Next]_vars

\* ------------------------------------------------- the keys as functions

\* The records key and mate_key are applied to: every combination of the two
\* designation bits, two read names, and template lengths up to the ends of
\* i32.
KeyRecords ==
    [read_name : {"r1", "r2"}, flag : SUBSET {"READ_1", "READ_2"},
     ref_id : RefIds, pos : Positions, next_ref_id : RefIds,
     next_pos : Positions, tlen : {-40, 40, MinI32, -(MinI32 + 1)}]

\* What a call of key returns: a key, or a panic.
KeyOutcome(record) ==
    IF KeyPanics(record) THEN [ok |-> FALSE, key |-> << >>]
    ELSE [ok |-> TRUE, key |-> key(record)]

\* What a call of mate_key returns: a key, or a panic.
MateKeyOutcome(record, checks) ==
    IF MateKeyPanics(record, checks) THEN [ok |-> FALSE, key |-> << >>]
    ELSE [ok |-> TRUE, key |-> mate_key(record)]

InitKey ==
    /\ records \in {<< OkItem(A), OkItem(B) >> : A, B \in KeyRecords}
    /\ primary_only = FALSE
    /\ overflow_checks \in BOOLEAN
    /\ next_index = 1
    /\ buf = EmptyBuf
    /\ drain = NoDrain
    /\ panicked = FALSE
    /\ result = [kind |-> "NotCalled"]
    /\ last = "new"
    /\ pairs = << >>
    /\ errors = << >>
    /\ singles = << >>
    /\ overwritten = {}
    /\ dropped = {}
    /\ feature = NoFeature

\* key and mate_key are applied to each of the records.
ComputeKeys ==
    /\ result.kind = "NotCalled"
    /\ result' =
           [kind |-> "Keys",
            key |-> [n \in 1..Len(records) |-> KeyOutcome(records[n].record)],
            mate_key |-> [n \in 1..Len(records) |->
                             MateKeyOutcome(records[n].record, overflow_checks)]]
    /\ last' = "keys"
    /\ UNCHANGED << records, next_index, buf, primary_only, overflow_checks,
                    drain, panicked, pairs, errors, singles, overwritten,
                    dropped, feature >>

NextKey == ComputeKeys

SpecKey == InitKey /\ [][NextKey]_vars

\* ----------------------------------------------------------------- Feature

\* A u64 is held as its Limbs digits in base LimbBase, least digit first:
\* 4 digits of 16 bits.
Limbs == 4
LimbBase == 65536

U64Zero == [n \in 1..Limbs |-> 0]
U64One == [n \in 1..Limbs |-> IF n = 1 THEN 1 ELSE 0]

\* The borrow into digit n of a - b.
RECURSIVE Borrow(_, _, _)
Borrow(a, b, n) ==
    IF n = 1 THEN 0
    ELSE IF a[n - 1] - b[n - 1] - Borrow(a, b, n - 1) < 0 THEN 1 ELSE 0

\* a - b in u64: the difference modulo 2^64, and whether it overflowed.
U64Sub(a, b) ==
    [value |-> [n \in 1..Limbs |-> (a[n] - b[n] - Borrow(a, b, n)) % LimbBase],
     overflow |-> Borrow(a, b, Limbs + 1) = 1]

\* The carry into digit n of a + b.
RECURSIVE Carry(_, _, _)
Carry(a, b, n) ==
    IF n = 1 THEN 0
    ELSE IF a[n - 1] + b[n - 1] + Carry(a, b, n - 1) >= LimbBase THEN 1 ELSE 0

\* a + b in u64: the sum modulo 2^64, and whether it overflowed.
U64Add(a, b) ==
    [value |-> [n \in 1..Limbs |-> (a[n] + b[n] + Carry(a, b, n)) % LimbBase],
     overflow |-> Carry(a, b, Limbs + 1) = 1]

\* Feature::len: self.end - self.start + 1.  An overflow panics in a build
\* with overflow checks and wraps in one without.
len(f, checks) ==
    LET d == U64Sub(f.end, f.start)
        n == U64Add(d.value, U64One)
    IN IF checks /\ (d.overflow \/ n.overflow)
       THEN [ok |-> FALSE, value |-> U64Zero]
       ELSE [ok |-> TRUE, value |-> n.value]

\* The features len is called on: start and end with every digit 0 or the
\* greatest, and the least digit also that of the feature of the tests (8, 13).
StartLimbs == {0, 8, LimbBase - 1}
EndLimbs == {0, 13, LimbBase - 1}
Features ==
    [built : {TRUE}, start : [1..Limbs -> StartLimbs],
     end : [1..Limbs -> EndLimbs]]

\* Feature::new, in either build.
InitFeature ==
    /\ feature \in Features
    /\ overflow_checks \in BOOLEAN
    /\ records = << >>
    /\ primary_only = FALSE
    /\ next_index = 1
    /\ buf = EmptyBuf
    /\ drain = NoDrain
    /\ panicked = FALSE
    /\ result = [kind |-> "NotCalled"]
    /\ last = "new"
    /\ pairs = << >>
    /\ errors = << >>
    /\ singles = << >>
    /\ overwritten = {}
    /\ dropped = {}

\* A call of feature.len().
FeatureLen ==
    /\ feature.built
    /\ result.kind = "NotCalled"
    /\ result' = [kind |-> "Len", len |-> len(feature, overflow_checks)]
    /\ last' = "len"
    /\ UNCHANGED << records, next_index, buf, primary_only, overflow_checks,
                    drain, panicked, pairs, errors, singles, overwritten,
                    dropped, feature >>

NextFeature == FeatureLen

SpecFeature == InitFeature /\ [][NextFeature]_vars

\* ------------------------------------------------------------ observations

Indices == 1..Len(records)

\* Item i has been pulled from the source.
Pulled(i) == i \in 1..(next_index - 1)

IsRecord(i) == i \in Indices /\ records[i].kind = "Ok"
Rec(i) == records[i].record
Resolvable(i) == IsRecord(i) /\ try_from(Rec(i).flag) # "Err"

\* Record i is not skipped by the primary_only filter.
Accepted(i) == IsRecord(i) /\ ~(primary_only /\ is_primary(Rec(i)))

\* The emitted pairs that contain record i.
PairsWith(i) == {n \in 1..Len(pairs) : pairs[n][1] = i \/ pairs[n][2] = i}

\* The yields of the singleton drains that are record i.
YieldsOf(i) == {n \in 1..Len(singles) : singles[n] = i}

Buffered(i) == \E k \in DOMAIN buf : buf[k] = i

Drained(i) == YieldsOf(i) # {} \/ i \in dropped

\* B has the fields of A mirrored.
Mirrored(A, B) ==
    /\ B.read_name = A.read_name
    /\ B.ref_id = A.next_ref_id
    /\ B.pos = A.next_pos
    /\ B.next_ref_id = A.ref_id
    /\ B.next_pos = A.pos
    /\ A.tlen # MinI32
    /\ B.tlen = -A.tlen

\* Records a (designated First) and b (designated Second) are mates by their
\* fields.
Mates(a, b) ==
    /\ IsRecord(a) /\ IsRecord(b)
    /\ try_from(Rec(a).flag) = "First"
    /\ try_from(Rec(b).flag) = "Second"
    /\ Mirrored(Rec(a), Rec(b))

\* Record c has the identity key of a or of b.
SameKeyAs(c, a, b) ==
    Resolvable(c) /\ key(Rec(c)) \in {key(Rec(a)), key(Rec(b))}

Lo(a, b) == IF a < b THEN a ELSE b
Hi(a, b) == IF a < b THEN b ELSE a

\* Exactly one emitted pair contains a or b, and it is (a, b).
PairedOnce(a, b) ==
    /\ PairsWith(a) = PairsWith(b)
    /\ Cardinality(PairsWith(a)) = 1
    /\ \A n \in PairsWith(a) : pairs[n] = << a, b >>

\* ---------------------------------------------------------------------- C1

\* C1 as stated: any two mates a (First) and b (Second) that have both been
\* pulled, in either arrival order, with only records of other identity keys
\* between them, are in exactly one emitted pair, and it is (a, b).
C1_AnyMatesPaired ==
    \A a, b \in Indices :
        ( /\ Pulled(a) /\ Pulled(b)
          /\ Mates(a, b)
          /\ \A c \in (Lo(a, b) + 1)..(Hi(a, b) - 1) : ~SameKeyAs(c, a, b) )
        => PairedOnce(a, b)

\* C1 amended: two mates a (First) and b (Second) that have both been pulled,
\* in either arrival order, are in exactly one emitted pair, and it is (a, b),
\* provided neither is skipped by the primary_only filter, no other accepted
\* record pulled before the later of them has the identity key of either, and
\* neither has been removed from the buffer by a singleton drain.
C1_MatesPaired ==
    \A a, b \in Indices :
        ( /\ Pulled(a) /\ Pulled(b)
          /\ Mates(a, b)
          /\ Accepted(a) /\ Accepted(b)
          /\ \A c \in 1..(Hi(a, b) - 1) :
                 (c \notin {a, b} /\ Accepted(c)) => ~SameKeyAs(c, a, b)
          /\ ~Drained(a) /\ ~Drained(b) )
        => PairedOnce(a, b)

\* The Second mate arrived first, an unrelated record was buffered between the
\* two, and the pair was emitted First mate first.
C1_Witness ==
    \E n \in 1..Len(pairs) :
        LET a == pairs[n][1]
            b == pairs[n][2]
        IN /\ Mates(a, b)
           /\ b + 1 < a
           /\ Buffered(b + 1)

\* ---------------------------------------------------------------------- C2

\* The pair sequence has returned end-of-sequence and the buffer has been
\* drained by singleton drains that were iterated to their end.
AllDrained ==
    /\ result.kind = "None"
    /\ ~drain.active
    /\ DOMAIN buf = {}
    /\ dropped = {}

\* The number of times record i has been handed out: in pairs and by drains.
Handed(i) == Cardinality(PairsWith(i)) + Cardinality(YieldsOf(i))

\* C2 as stated: once the pair sequence has ended and the singletons are
\* drained, every record the filter accepted has been handed out exactly
\* once, in a pair or by the drain.
C2_AllAccounted ==
    AllDrained => \A i \in Indices : Accepted(i) => Handed(i) = 1

\* C2 amended: once the pair sequence has ended and the singletons are
\* drained, every record the filter accepted has been handed out exactly
\* once, in a pair or by the drain, unless a later record with the same
\* identity key replaced it in the buffer: such a record is handed out never.
C2_AccountedUnlessOverwritten ==
    AllDrained =>
        \A i \in Indices :
            Accepted(i) => Handed(i) = (IF i \in overwritten THEN 0 ELSE 1)

\* A run to the end that emitted a pair and drained a singleton.
C2_Witness ==
    /\ AllDrained
    /\ Len(pairs) = 1
    /\ Len(singles) = 1
    /\ last = "singletons_drop"

\* ---------------------------------------------------------------------- C3

\* Record i has a mate key, and no record of the input has it as its
\* identity key.
NoMate(i) ==
    /\ Resolvable(i)
    /\ ~\E j \in Indices :
           Resolvable(j) /\ key(Rec(j)) = mate_key(Rec(i))

\* Record i is in exactly one place: in the buffer, yielded once by a drain,
\* or removed by the drop of a drain.
HeldOrDrainedOnce(i) ==
    Cardinality(YieldsOf(i)) + (IF Buffered(i) THEN 1 ELSE 0)
        + (IF i \in dropped THEN 1 ELSE 0) = 1

\* C3 as stated: a record without a mate in the input is in no emitted pair
\* and, once pulled, stays buffered until a drain removes it, so that after
\* the end of the pair sequence a complete drain has yielded it exactly once.
C3_LoneRecordDrained ==
    \A i \in Indices :
        NoMate(i) =>
            /\ PairsWith(i) = {}
            /\ Pulled(i) => HeldOrDrainedOnce(i)
            /\ AllDrained => Cardinality(YieldsOf(i)) = 1

\* C3 amended: a record without a mate in the input is in no emitted pair; if
\* the filter accepts it and no later record with the same identity key
\* replaces it in the buffer, then once pulled it stays buffered until a drain
\* removes it, so that after the end of the pair sequence a complete drain has
\* yielded it exactly once.
C3_AcceptedLoneRecordDrained ==
    \A i \in Indices :
        NoMate(i) =>
            /\ PairsWith(i) = {}
            /\ (Accepted(i) /\ i \notin overwritten) =>
                  /\ Pulled(i) => HeldOrDrainedOnce(i)
                  /\ AllDrained => Cardinality(YieldsOf(i)) = 1

\* After the end of the pair sequence a drain has yielded two records without
\* mates.
C3_Witness ==
    /\ AllDrained
    /\ pairs = << >>
    /\ Len(singles) = 2
    /\ \A n \in 1..Len(singles) : NoMate(singles[n])

\* ---------------------------------------------------------------------- C4

\* C4: a call of next_pair that meets a decode failure at item k returns that
\* failure; the buffer is what the call had built from the items before k
\* (the buffer it would hold had the source ended there), item k is consumed
\* and the next call resumes at k + 1, the failure is forwarded once and was
\* never forwarded before, no pair is emitted by the call, and the engine can
\* be called again.
C4_DecodeFailureForwarded ==
    [][ (last' = "next_pair" /\ result'.kind = "Err") =>
            LET k == result'.item IN
            /\ k >= next_index
            /\ records[k].kind = "Err"
            /\ \A j \in next_index..(k - 1) : records[j].kind = "Ok"
            /\ next_index' = k + 1
            /\ buf' = next_pair(SubSeq(records, 1, k - 1), next_index, buf, {}).buf
            /\ errors' = Append(errors, k)
            /\ \A n \in 1..Len(errors) : errors[n] < k
            /\ pairs' = pairs
            /\ ~panicked' /\ ~drain'.active ]_vars

\* A decode failure was forwarded while a record was buffered, and a later
\* call paired that record with a mate that followed the failing item.
C4_Witness ==
    /\ Len(errors) = 1
    /\ Len(pairs) = 1
    /\ Lo(pairs[1][1], pairs[1][2]) < errors[1]
    /\ errors[1] < Hi(pairs[1][1], pairs[1][2])
    /\ result.kind = "Pair"

\* ---------------------------------------------------------------------- C5

\* The pair sequence pulled over the source rs until it ends: the pairs it
\* emits, the buffer it leaves and how it ended (None, or Panic).
RECURSIVE RunToEnd(_, _, _, _)
RunToEnd(rs, i, b, ps) ==
    LET r == next_pair(rs, i, b, {}) IN
    IF r.result.kind = "Pair"
    THEN RunToEnd(rs, r.next_index, r.buf, Append(ps, r.result.pair))
    ELSE IF r.result.kind = "Err"
    THEN RunToEnd(rs, r.next_index, r.buf, ps)
    ELSE [pairs |-> ps, buf |-> r.buf, end |-> r.result.kind]

\* The n-th least index of the set K of indices.
Nth(K, n) == CHOOSE i \in K : Cardinality({j \in K : j < i}) = n - 1

\* The items of the sequence rs at the indices K, in order.
Restrict(rs, K) == [n \in 1..Cardinality(K) |-> rs[Nth(K, n)]]

\* The outcome of the pair sequence over the items of rs at the indices K,
\* with the records named by their indices in rs.
Outcome(rs, K) ==
    LET o == RunToEnd(Restrict(rs, K), 1, EmptyBuf, << >>) IN
    [pairs |-> [n \in 1..Len(o.pairs) |->
                   << Nth(K, o.pairs[n][1]), Nth(K, o.pairs[n][2]) >>],
     buf |-> [k \in DOMAIN o.buf |-> Nth(K, o.buf[k])],
     end |-> o.end]

\* The pair sequence has ended (by None or by a panic) and no drain has
\* removed a record.
EndedUndrained ==
    /\ result.kind \in {"None", "Panic"}
    /\ singles = << >>
    /\ dropped = {}

\* The engine is in the state the outcome o describes.
IsOutcome(o) ==
    /\ pairs = o.pairs
    /\ buf = o.buf
    /\ result.kind = o.end

\* C5: when the pair sequence has been pulled to its end, the pairs emitted
\* and the records left buffered (the singletons) are those of the same input
\* with the decode failures removed.
C5_FailuresTransparent ==
    EndedUndrained => IsOutcome(Outcome(records, {i \in Indices : IsRecord(i)}))

\* The run has ended with a pair of the records on either side of a decode
\* failure.
C5_Witness ==
    /\ EndedUndrained
    /\ result.kind = "None"
    /\ Len(records) = 3
    /\ ~IsRecord(2)
    /\ pairs # << >>

\* ---------------------------------------------------------------------- C6

NonPrimary(i) ==
    IsRecord(i) /\ (is_secondary(Rec(i).flag) \/ is_supplementary(Rec(i).flag))

\* The source with the secondary and supplementary bits of every record
\* cleared.
AsPrimary(rs) ==
    [n \in 1..Len(rs) |->
        IF rs[n].kind = "Ok"
        THEN OkItem([rs[n].record EXCEPT
                        !.flag = @ \ {"SECONDARY", "SUPPLEMENTARY"}])
        ELSE rs[n]]

\* C6: with primary_only set, a record flagged secondary or supplementary is
\* in no pair, is never buffered, drained or overwritten, and the run ends as
\* it does on the input without these records; with primary_only unset, the
\* run ends as it does when the two bits are cleared in every record.
C6_NonPrimarySkipped ==
    /\ primary_only =>
          /\ \A i \in Indices :
                 NonPrimary(i) =>
                     /\ PairsWith(i) = {}
                     /\ ~Buffered(i)
                     /\ ~Drained(i)
                     /\ i \notin overwritten
          /\ EndedUndrained =>
                 IsOutcome(Outcome(records, {i \in Indices : ~NonPrimary(i)}))
    /\ (~primary_only /\ EndedUndrained) =>
          IsOutcome(Outcome(AsPrimary(records), Indices))

\* With primary_only set, a supplementary record that has the mate key of a
\* buffered record was pulled, and the buffered record is still there.
C6_Witness ==
    /\ primary_only
    /\ \E i, j \in Indices :
          /\ i < j /\ Pulled(j)
          /\ Buffered(i)
          /\ Resolvable(j)
          /\ is_supplementary(Rec(j).flag)
          /\ key(Rec(j)) = mate_key(Rec(i))

\* ---------------------------------------------------------------------- C7

\* C7 as stated: a pulled record whose flags give neither First nor Second
\* does not crash the engine, and it is neither buffered nor paired.
C7_UnresolvableHandled ==
    \A i \in Indices :
        (Pulled(i) /\ IsRecord(i) /\ ~Resolvable(i)) =>
            /\ ~panicked
            /\ ~Buffered(i)
            /\ PairsWith(i) = {}

\* ---------------------------------------------------------------------- C8

Range(f) == {f[x] : x \in DOMAIN f}

\* C8: a live drain has yielded, each once, exactly the records that were
\* buffered when it was invoked and that it does not hold any more, and the
\* buffer holds what is still to be yielded; the buffer is empty after the
\* drain is dropped, iterated to the end or not; and a drain invoked right
\* after the drop of another has nothing to yield.
C8_DrainYieldsAllOnce ==
    /\ drain.active =>
          /\ DOMAIN drain.yielded = 1..Cardinality(Range(drain.yielded))
          /\ Range(drain.yielded) =
                 {drain.start[k] : k \in DOMAIN drain.start \ drain.keys}
          /\ drain.keys \subseteq DOMAIN drain.start
          /\ buf = [k \in drain.keys |-> drain.start[k]]
          /\ drain.after_drop => (drain.start = EmptyBuf /\ drain.yielded = << >>)
    /\ last = "singletons_drop" => (buf = EmptyBuf /\ ~drain.active)

\* A drain was invoked right after another that had yielded one record and
\* was dropped while it held a second.
C8_Witness ==
    /\ drain.active
    /\ drain.after_drop
    /\ Len(singles) = 1
    /\ Cardinality(dropped) = 1

\* ---------------------------------------------------------------------- C9

\* C9: a record that a later record with the same identity key replaced in
\* the buffer is in no pair, in no drain and not in the buffer; the buffer
\* holds, under each key, the latest accepted record pulled with that key;
\* and no call reports a failure for anything but a decode failure.
C9_LastWriteWins ==
    /\ \A i \in overwritten :
          /\ PairsWith(i) = {}
          /\ ~Drained(i)
          /\ ~Buffered(i)
          /\ \E j \in Indices :
                /\ i < j /\ Pulled(j) /\ Accepted(j) /\ Resolvable(j)
                /\ key(Rec(j)) = key(Rec(i))
    /\ \A k \in DOMAIN buf :
          /\ key(Rec(buf[k])) = k
          /\ \A j \in Indices :
                (Pulled(j) /\ Accepted(j) /\ Resolvable(j)
                    /\ key(Rec(j)) = k) => j <= buf[k]
    /\ \A n \in 1..Len(errors) : ~IsRecord(errors[n])

\* The later of two records with the same identity key replaced the earlier
\* in the buffer and was then emitted in a pair with the mate.
C9_Witness ==
    \E i \in overwritten, j \in Indices :
        /\ i < j
        /\ Resolvable(j)
        /\ key(Rec(j)) = key(Rec(i))
        /\ PairsWith(j) # {}

\* --------------------------------------------------------------------- C10

\* t is the negation of the template length tlen.
Negation(tlen, t) == tlen # MinI32 /\ t = -tlen

\* C10 as stated: for records with a resolvable designation, mate_key returns
\* the identity key with the designation flipped, the own and the mate
\* (reference id, position) swapped and the template length negated; the
\* mate relation is symmetric, and no record is its own mate.
C10_MateKeyMirrorsKey ==
    result.kind = "Keys" =>
        \A a, b \in Indices :
            (Resolvable(a) /\ Resolvable(b)) =>
                LET k == result.key[a]
                    mk == result.mate_key[a]
                IN /\ k.ok /\ mk.ok
                   /\ mk.key[1] = k.key[1]
                   /\ mk.key[2] = mate(k.key[2])
                   /\ << mk.key[3], mk.key[4] >> = << k.key[5], k.key[6] >>
                   /\ << mk.key[5], mk.key[6] >> = << k.key[3], k.key[4] >>
                   /\ Negation(k.key[7], mk.key[7])
                   /\ (mk = result.key[b]) <=> (result.mate_key[b] = k)
                   /\ mk # k

\* --------------------------------------------------------------------- C11

\* C11 as stated: the designation of a record is First when only the read-1
\* bit of its flag is set and Second when only the read-2 bit is set, and its
\* derivation fails, so that no key is computed, when neither bit or both
\* bits are set.
C11_DesignationExactlyOne ==
    result.kind = "Keys" =>
        \A n \in Indices :
            LET flag == Rec(n).flag
                k == result.key[n]
            IN /\ (is_read_1(flag) /\ ~is_read_2(flag)) =>
                      (k.ok /\ k.key[2] = "First")
               /\ (is_read_2(flag) /\ ~is_read_1(flag)) =>
                      (k.ok /\ k.key[2] = "Second")
               /\ (is_read_1(flag) <=> is_read_2(flag)) => ~k.ok

\* --------------------------------------------------------------------- C12

\* C12: a call of next_pair that emits a pair at the arriving record j removes
\* from the buffer it had built before j exactly the entry under the mate key
\* of j, leaves every other entry as it was and does not insert j; the pair
\* is made of the removed record and j.
C12_PairRemovesOnlyMate ==
    [][ (last' = "next_pair" /\ result'.kind = "Pair") =>
            LET j == next_index' - 1
                b0 == next_pair(SubSeq(records, 1, j - 1), next_index, buf,
                                {}).buf
                mk == mate_key(Rec(j))
            IN /\ mk \in DOMAIN b0
               /\ DOMAIN buf' = DOMAIN b0 \ {mk}
               /\ \A k \in DOMAIN buf' : buf'[k] = b0[k] /\ buf'[k] # j
               /\ Cardinality(DOMAIN buf') = Cardinality(DOMAIN b0) - 1
               /\ {result'.pair[1], result'.pair[2]} = {b0[mk], j}
               /\ pairs' = Append(pairs, result'.pair) ]_vars

\* The scenario A1, B1, A2: the single pair (A1, A2) was emitted, the buffer
\* holds exactly B1, and the end of the source reported 1 singleton.
C12_Witness ==
    /\ Len(records) = 3
    /\ Mates(1, 3)
    /\ Resolvable(2)
    /\ try_from(Rec(2).flag) = "First"
    /\ pairs = << << 1, 3 >> >>
    /\ DOMAIN buf = {key(Rec(2))}
    /\ buf[key(Rec(2))] = 2
    /\ result.kind = "None"
    /\ result.warn = << 1 >>

\* --------------------------------------------------------------------- C13

\* a <= b in u64, from digit n down.
RECURSIVE U64LeFrom(_, _, _)
U64LeFrom(a, b, n) ==
    IF n = 0 THEN TRUE
    ELSE IF a[n] # b[n] THEN a[n] < b[n]
    ELSE U64LeFrom(a, b, n - 1)

U64Le(a, b) == U64LeFrom(a, b, Limbs)

\* v is the number of positions start..end: v >= 1 and v - 1 = end - start.
CountsPositions(v, start, end) ==
    /\ ~U64Sub(v, U64One).overflow
    /\ ~U64Sub(end, start).overflow
    /\ U64Sub(v, U64One).value = U64Sub(end, start).value

\* C13 as stated: for every feature with start <= end over the whole of u64,
\* len returns the number of positions end - start + 1, and neither the
\* subtraction nor the addition overflows.
C13_LenWithoutOverflow ==
    (result.kind = "Len" /\ U64Le(feature.start, feature.end)) =>
        /\ result.len.ok
        /\ ~U64Sub(feature.end, feature.start).overflow
        /\ ~U64Add(U64Sub(feature.end, feature.start).value, U64One).overflow
        /\ CountsPositions(result.len.value, feature.start, feature.end)

\* --------------------------------------------------------------------- C14

\* C14: a call of next_pair pulls the items from the source's position up to
\* and including the first that produces a result, and no further.  When it
\* returns a pair, the later of the two records is the last item pulled, in
\* this call, and the earlier was pulled before it; when it returns a decode
\* failure, the failing item is the last pulled; when it returns None, the
\* source is exhausted; and no item pulled before the last would have
\* produced a result: the call over the source cut after it finds nothing.
C14_PairAsSoonAsBothSeen ==
    [][ (last' = "next_pair" /\ result'.kind \in {"Pair", "Err", "None"}) =>
            LET k == next_index' - 1 IN
            /\ next_index' >= next_index
            /\ next_index' <= Len(records) + 1
            /\ result'.kind = "Pair" =>
                   /\ k >= next_index
                   /\ Hi(result'.pair[1], result'.pair[2]) = k
                   /\ Lo(result'.pair[1], result'.pair[2]) < k
                   /\ key(Rec(Lo(result'.pair[1], result'.pair[2])))
                          = mate_key(Rec(k))
                   /\ pairs' = Append(pairs, result'.pair)
            /\ result'.kind = "Err" =>
                   (k >= next_index /\ result'.item = k)
            /\ result'.kind = "None" => next_index' = Len(records) + 1
            /\ result'.kind # "Pair" => pairs' = pairs
            /\ \A j \in next_index..(IF result'.kind = "None" THEN k ELSE k - 1) :
                   /\ records[j].kind = "Ok"
                   /\ next_pair(SubSeq(records, 1, j), next_index, buf,
                                {}).result.kind = "None" ]_vars

\* A call buffered a record, pulled its mate next and returned the pair, with
\* an item of the source still to pull.
C14_Witness ==
    /\ last = "next_pair"
    /\ result.kind = "Pair"
    /\ pairs = << result.pair >>
    /\ Mates(result.pair[1], result.pair[2])
    /\ Hi(result.pair[1], result.pair[2]) = 2
    /\ next_index = 3
    /\ Len(records) = 3

\* --------------------------------------------------------------------- C15

\* C15: a call of next_pair on an exhausted source returns None and leaves the
\* buffer, the source's position and everything emitted so far unchanged,
\* and the engine can be called again; whenever a call returns None, the
\* singleton count is logged if and only if the buffer is not empty, and the
\* count logged is the number of entries of the buffer.
C15_ExhaustionKeepsBuffer ==
    [][ last' = "next_pair" =>
            /\ next_index > Len(records) =>
                   /\ result'.kind = "None"
                   /\ buf' = buf
                   /\ next_index' = next_index
                   /\ pairs' = pairs /\ errors' = errors
                   /\ overwritten' = overwritten
                   /\ ~panicked' /\ ~drain'.active
            /\ result'.kind = "None" =>
                   /\ next_index' = Len(records) + 1
                   /\ (result'.warn # << >>) <=> (DOMAIN buf' # {})
                   /\ DOMAIN buf' # {} =>
                          result'.warn = << Cardinality(DOMAIN buf') >>
                   /\ DOMAIN result' = {"kind", "warn"} ]_vars

\* The source ended with a decode failure while two records were buffered,
\* and the next call, on the exhausted source, logged 2 singletons.
C15_Witness ==
    /\ last = "next_pair"
    /\ result.kind = "None"
    /\ result.warn = << 2 >>
    /\ Cardinality(DOMAIN buf) = 2
    /\ Len(records) = 3
    /\ errors = << 3 >>

\* --------------------------------------------------------------------- C16

\* C16: in every reachable state of the engine, no two entries of the buffer
\* are mates of each other: the mate key of a buffered record is not a key of
\* the buffer, and no two buffered records are mates by their fields.
C16_NoMatesBuffered ==
    /\ \A k \in DOMAIN buf : mate_key(Rec(buf[k])) \notin DOMAIN buf
    /\ \A k1, k2 \in DOMAIN buf : ~Mates(buf[k1], buf[k2])

\* Across a decode failure, two records have been buffered that are
\* designated First and Second.
C16_Witness ==
    /\ errors = << 2 >>
    /\ Cardinality(DOMAIN buf) = 2
    /\ \E k1, k2 \in DOMAIN buf : k1[2] = "First" /\ k2[2] = "Second"

\* --------------------------------------------------------------------- C17

\* C17: every emitted pair (a, b) is made of two distinct records of the
\* input that have been pulled, a designated First and b designated Second,
\* with the same read name and mirrored fields, and key(b) = mate_key(a);
\* neither is in the buffer any more and neither is in another pair; and the
\* pair a call has just returned is made of the item the call pulled last and
\* of a record pulled before it.
C17_PairsAreMates ==
    /\ \A n \in 1..Len(pairs) :
          LET a == pairs[n][1]
              b == pairs[n][2]
          IN /\ IsRecord(a) /\ IsRecord(b)
             /\ a # b
             /\ Pulled(a) /\ Pulled(b)
             /\ try_from(Rec(a).flag) = "First"
             /\ try_from(Rec(b).flag) = "Second"
             /\ Rec(a).read_name = Rec(b).read_name
             /\ key(Rec(b)) = mate_key(Rec(a))
             /\ Mates(a, b)
             /\ ~Buffered(a) /\ ~Buffered(b)
             /\ PairsWith(a) = {n} /\ PairsWith(b) = {n}
    /\ (last = "next_pair" /\ result.kind = "Pair") =>
          /\ pairs # << >>
          /\ result.pair = pairs[Len(pairs)]
          /\ Hi(result.pair[1], result.pair[2]) = next_index - 1

\* A pair of the read r1 was emitted while the first mate of the read r2,
\* aligned where the first mate of r1 is, stays in the buffer.
C17_Witness ==
    /\ Len(pairs) = 1
    /\ Mates(pairs[1][1], pairs[1][2])
    /\ Rec(pairs[1][1]).read_name = "r1"
    /\ \E k \in DOMAIN buf :
          /\ k[1] = "r2"
          /\ Rec(buf[k]).pos = Rec(pairs[1][1]).pos
          /\ buf[k] < pairs[1][2]

\* --------------------------------------------------------------------- C18

\* The records the source has yielded so far that the filter has not skipped.
AcceptedSoFar == {i \in Indices : Pulled(i) /\ Accepted(i)}

\* The accepted records are, each once, in a pair, in the buffer, replaced
\* by a same-key insertion or removed by a drain.
Conserved ==
    Cardinality(AcceptedSoFar) =
        2 * Len(pairs) + Cardinality(DOMAIN buf) + Cardinality(overwritten)
            + Len(singles) + Cardinality(dropped)

\* The buffer of a call of next_pair after it has pulled the items up to j,
\* none of which produces a result.
BufAfter(j) == next_pair(SubSeq(records, 1, j), next_index, buf, {}).buf

\* In a call of next_pair, every item pulled before the one that produces the
\* result changes the size of the buffer by +1 or 0, by 0 when the filter
\* skips it, and a pair emission changes it by -1.
BufferSteps ==
    (last' = "next_pair" /\ result'.kind \in {"Pair", "Err", "None"}) =>
        LET k == IF result'.kind = "None" THEN next_index' ELSE next_index' - 1
        IN /\ \A j \in next_index..(k - 1) :
                  LET d == Cardinality(DOMAIN BufAfter(j))
                               - Cardinality(DOMAIN BufAfter(j - 1))
                  IN /\ d \in {0, 1}
                     /\ ~Accepted(j) => d = 0
           /\ Cardinality(DOMAIN buf') =
                  Cardinality(DOMAIN BufAfter(k - 1))
                      - (IF result'.kind = "Pair" THEN 1 ELSE 0)

\* C18 as stated: in every reachable state, the number of records accepted so
\* far is 2 x (pairs emitted) + (buffer size) + (records overwritten) +
\* (records removed by drains), and the buffer size changes by -1 on a pair
\* emission and by +1 or 0 on a buffering step.
C18_RecordsConserved == []Conserved /\ [][BufferSteps]_vars

\* --------------------------------------------------------------------- C19

\* C19 as stated: for every record with a designation and every i32 template
\* length, the least included, mate_key returns a key (the negation does not
\* fault) that carries the negated template length (it does not overflow),
\* and the mate key of the mirrored mate of a record is the key of the
\* record.
C19_NegationNeverOverflows ==
    result.kind = "Keys" =>
        \A a \in Indices :
            Resolvable(a) =>
                /\ result.mate_key[a].ok
                /\ Negation(Rec(a).tlen, result.mate_key[a].key[7])
                /\ \A b \in Indices :
                       ( /\ Resolvable(b)
                         /\ try_from(Rec(b).flag) = mate(try_from(Rec(a).flag))
                         /\ Mirrored(Rec(a), Rec(b)) )
                       => /\ result.mate_key[b].ok
                          /\ result.mate_key[b] = result.key[a]

\* --------------------------------------------------------------------- C20

\* In a call of next_pair, item j is pulled and it is a record with the mate
\* key of record i, which a drain has removed before the call, as its key.
LateMate(i, j) ==
    /\ Drained(i) /\ Resolvable(i)
    /\ j \in next_index..(next_index' - 1)
    /\ Resolvable(j)
    /\ key(Rec(j)) = mate_key(Rec(i))

\* The call inserts record j into the buffer when it has pulled it.
Inserted(j) ==
    /\ key(Rec(j)) \in DOMAIN BufAfter(j)
    /\ BufAfter(j)[key(Rec(j))] = j

\* No record removed by a drain is in a pair.
DrainedUnpaired == \A i \in Indices : Drained(i) => PairsWith(i) = {}

\* The pair sequence has ended, by None or by a panic: the pairs emitted and
\* the buffer left are those of a run without drains over the input without
\* the records the drains removed and those replaced in the buffer.
UndrainedUnaffected ==
    result.kind \in {"None", "Panic"} =>
        IsOutcome(Outcome(records,
                          {i \in Indices : ~Drained(i) /\ i \notin overwritten}))

====
